---- MODULE Spec2Model ----
(***************************************************************************)
(* Model of cuda-oas-mlm-train-ddp.py: the __main__ block spawns num_gpus  *)
(* copies of worker(local_rank, args) on every host of args.hosts.  Each   *)
(* worker computes its world size and global rank, joins the process       *)
(* group, runs the training loop (with its optimizer stepping schedule),   *)
(* meets the others at dist.barrier(), evaluates, reports, and finally the *)
(* worker of global rank 0 saves the checkpoint.                           *)
(*                                                                         *)
(* Two specifications share the same actions:                              *)
(*   Spec       the cluster: all workers of all hosts, interleaved, the    *)
(*              inner training loop of one epoch taken as one step;        *)
(*   SpecTrain  one worker, the training loop taken batch by batch.        *)
(***************************************************************************)
EXTENDS Integers, Sequences, FiniteSets

VARIABLES
    args,              \* the parsed command line (parse_args)
    len_train_loader,  \* len(train_loader), the same on every worker
    len_eval_loader,   \* len(eval_loader), the same on every worker
    proc,              \* worker -> its locals and its position in worker()
    checkpoint         \* the writes of model_dir/checkpoint.pt, in order

vars == <<args, len_train_loader, len_eval_loader, proc, checkpoint>>

----------------------------------------------------------------------------
(* Bounds of the model *)

MaxWorld == 4        \* at most this many workers in the cluster (hosts * gpus)
MaxEpochs == 2       \* num_epochs ranges over 0..MaxEpochs
MaxBatches == 4      \* len(train_loader) ranges over 0..MaxBatches (SpecTrain)
MaxAccum == 3        \* gradient_accumulation_steps ranges over 1..MaxAccum
MaxLogging == 2      \* logging_steps ranges over 1..MaxLogging (SpecTrain)
MaxEvalBatches == 2  \* len(eval_loader) ranges over 1..MaxEvalBatches (SpecTrain)
ClusterBatches == 2  \* len(train_loader) ranges over 1..ClusterBatches (Spec)

(* Program constants: defaults of parse_args *)
DefaultGradientAccumulationSteps == 1
DefaultLoggingSteps == 10

HostNames == {"algo-1", "algo-2", "algo-3"}
LossVals == {1, 2}   \* the loss of one evaluation batch

----------------------------------------------------------------------------
(* Helpers *)

Range(s) == {s[i] : i \in 1..Len(s)}

\* The duplicate-free host lists over HostNames of at most n hosts.
HostLists(n) ==
    {s \in UNION {[1..l -> HostNames] : l \in 1..n} :
        \A i, j \in 1..Len(s) : i # j => s[i] # s[j]}

\* list.index(x): the 0-based position of the first occurrence of x.
Index(s, x) ==
    (CHOOSE i \in 1..Len(s) : s[i] = x /\ \A j \in 1..(i - 1) : s[j] # x) - 1

RECURSIVE SumSeq(_)
SumSeq(s) == IF s = <<>> THEN 0 ELSE s[1] + SumSeq(Tail(s))

\* The workers of the cluster: torch.multiprocessing.spawn(worker,
\* nprocs=num_gpus) on each host gives local ranks 0..num_gpus-1.
Workers(a) == {<<h, r>> : h \in Range(a.hosts), r \in 0..(a.num_gpus - 1)}

----------------------------------------------------------------------------
(* Rank and world size: worker(), lines 204-211 *)

WorldSize(hosts, num_gpus) == Len(hosts) * num_gpus

NodeId(hosts, current_host) == Index(hosts, current_host)

GlobalRankNoStride(node_id, num_gpus, local_rank) == node_id + local_rank

GlobalRank(node_id, num_gpus, local_rank) == node_id * num_gpus + local_rank

----------------------------------------------------------------------------
(* The optimizer stepping schedule and the gradient buffer *)

StepDueNoTail(idx, k, n) == (idx + 1) % k = 0

\* The condition of line 392-394 guarding optimizer.step().
StepDue(idx, k, n) == ((idx + 1) % k = 0) \/ (idx + 1 = n)

\* optimizer.zero_grad(): every .grad is cleared.
ZeroGrad(grad) == {}

\* loss.backward(): the batch's gradient is added into .grad.
Backward(grad, batch) == grad \cup {batch}

\* report_metrics prints only when its first argument is 0.
Prints(rank) == rank = 0

\* One iteration of the training loop body (lines 380-408) on worker
\* record p, for batch p.idx of epoch p.epoch.
TrainBatchStep(p, a, n) ==
    LET batch == <<p.epoch, p.idx>>
        g     == Backward(ZeroGrad(p.grad), batch)
        win   == p.window \cup {batch}
        due   == StepDue(p.idx, a.gradient_accumulation_steps, n)
        logs  == (p.idx + 1) % a.logging_steps = 0
    IN [p EXCEPT
          !.grad = g,
          !.lr_steps = @ + 1,
          !.applied = IF due
                      THEN Append(@, [epoch |-> p.epoch, idx |-> p.idx,
                                      grad |-> g, window |-> win])
                      ELSE @,
          !.window = IF due THEN {} ELSE win,
          !.completed_steps = @ + 1,
          !.train_reports = IF logs /\ Prints(p.local_rank) THEN @ + 1 ELSE @,
          !.idx = @ + 1]

\* The whole inner loop of one epoch: for idx, batch in enumerate(train_loader).
RECURSIVE TrainLoop(_, _, _)
TrainLoop(p, a, n) ==
    IF p.idx >= n THEN p ELSE TrainLoop(TrainBatchStep(p, a, n), a, n)

----------------------------------------------------------------------------
(* Evaluation: lines 416-434 *)

\* eval_running_loss after the loop: the sum of loss / num_eval_steps_per_epoch,
\* kept as the exact fraction num / den.
EvalRunningLoss(losses, num_eval_steps) ==
    [num |-> SumSeq(losses), den |-> num_eval_steps]

\* The Eval loss handed to report_metrics by worker w, given the evaluation
\* losses of every worker of the cluster.
ReportedEvalLoss(w, all_losses, num_eval_steps) ==
    EvalRunningLoss(all_losses[w], num_eval_steps)

----------------------------------------------------------------------------
(* Checkpoint: lines 436-445 *)

SavesCheckpointLocal(p) == p.local_rank = 0

SavesCheckpoint(p) == p.global_rank = 0

----------------------------------------------------------------------------
(* Initial states *)

NoReport == [epoch |-> -1, steps |-> -1, loss |-> [num |-> 0, den |-> 1]]

\* A freshly spawned worker: worker(local_rank, args) has not run a line yet.
Spawned(w) ==
    [pc |-> "spawned", current_host |-> w[1], local_rank |-> w[2],
     world_size |-> -1, node_id |-> -1, global_rank |-> -1,
     pg |-> [world_size |-> -1, rank |-> -1],
     train_sampler |-> [num_replicas |-> -1, rank |-> -1],
     test_sampler |-> [num_replicas |-> -1, rank |-> -1],
     num_update_steps_per_epoch |-> -1, num_total_training_steps |-> -1,
     announced |-> -1,
     epoch |-> 0, idx |-> 0, completed_steps |-> 0,
     grad |-> {}, window |-> {}, applied |-> <<>>, lr_steps |-> 0,
     train_reports |-> 0,
     eval_losses |-> <<>>, eval_running_loss |-> [num |-> 0, den |-> 1],
     eval_done |-> 0, eval_report |-> NoReport]

InitProcs ==
    /\ proc = [w \in Workers(args) |-> Spawned(w)]
    /\ checkpoint = <<>>

\* The cluster: any duplicate-free host list and GPU count within MaxWorld,
\* the default accumulation and logging steps, one evaluation batch per
\* worker and epoch.
Init ==
    /\ args \in {a \in [hosts : HostLists(MaxWorld), num_gpus : 1..MaxWorld,
                        num_epochs : 0..MaxEpochs,
                        gradient_accumulation_steps : {DefaultGradientAccumulationSteps},
                        logging_steps : {DefaultLoggingSteps}] :
                    WorldSize(a.hosts, a.num_gpus) <= MaxWorld}
    /\ len_train_loader \in 1..ClusterBatches
    /\ len_eval_loader = 1
    /\ InitProcs

\* One worker on one host, every training-loop parameter varied.
InitTrain ==
    /\ args \in [hosts : {<<"algo-1">>}, num_gpus : {1},
                 num_epochs : 0..MaxEpochs,
                 gradient_accumulation_steps : 1..MaxAccum,
                 logging_steps : 1..MaxLogging]
    /\ len_train_loader \in 0..MaxBatches
    /\ len_eval_loader \in 1..MaxEvalBatches
    /\ InitProcs

----------------------------------------------------------------------------
(* Actions *)

\* Lines 204-214: world_size, node_id, global_rank, dist.init_process_group.
InitProcessGroup(w) ==
    /\ proc[w].pc = "spawned"
    /\ LET p  == proc[w]
           ws == WorldSize(args.hosts, args.num_gpus)
           nd == NodeId(args.hosts, p.current_host)
           gr == GlobalRank(nd, args.num_gpus, p.local_rank)
       IN proc' = [proc EXCEPT ![w] =
                     [p EXCEPT !.pc = "rendezvous",
                               !.world_size = ws, !.node_id = nd,
                               !.global_rank = gr,
                               !.pg = [world_size |-> ws, rank |-> gr]]]
    /\ UNCHANGED <<args, len_train_loader, len_eval_loader, checkpoint>>

\* init_process_group returns once world_size processes have joined; then
\* lines 216-370: samplers, loaders, metrics, the rank-0 announcement.
Setup(w) ==
    /\ proc[w].pc = "rendezvous"
    /\ Cardinality({v \in DOMAIN proc : proc[v].pc # "spawned"}) >= proc[w].world_size
    /\ LET p     == proc[w]
           nups  == len_train_loader
           total == args.num_epochs * nups
       IN proc' = [proc EXCEPT ![w] =
                     [p EXCEPT
                        !.pc = IF 0 < args.num_epochs THEN "train" ELSE "save",
                        !.train_sampler = [num_replicas |-> p.world_size,
                                           rank |-> p.global_rank],
                        !.test_sampler = [num_replicas |-> p.world_size,
                                          rank |-> p.global_rank],
                        !.num_update_steps_per_epoch = nups,
                        !.num_total_training_steps = total,
                        !.announced = IF p.global_rank = 0 THEN total ELSE -1,
                        !.completed_steps = 0,
                        !.epoch = 0]]
    /\ UNCHANGED <<args, len_train_loader, len_eval_loader, checkpoint>>

\* Lines 373-379: the head of one epoch, before the first batch.
EpochStart(w) ==
    /\ proc[w].pc = "train"
    /\ proc' = [proc EXCEPT ![w] =
                  [@ EXCEPT !.idx = 0,
                            !.pc = IF len_train_loader = 0 THEN "barrier"
                                   ELSE "batch"]]
    /\ UNCHANGED <<args, len_train_loader, len_eval_loader, checkpoint>>

\* Lines 380-408: one batch of the training loop; after the last batch the
\* worker calls dist.barrier() (line 410).
TrainBatch(w) ==
    /\ proc[w].pc = "batch"
    /\ proc[w].idx < len_train_loader
    /\ LET q == TrainBatchStep(proc[w], args, proc[w].num_update_steps_per_epoch)
       IN proc' = [proc EXCEPT ![w] =
                     [q EXCEPT !.pc = IF q.idx = len_train_loader
                                      THEN "barrier" ELSE "batch"]]
    /\ UNCHANGED <<args, len_train_loader, len_eval_loader, checkpoint>>

\* Lines 373-410 in one step: the head of the epoch and every batch of it.
TrainEpoch(w) ==
    /\ proc[w].pc = "train"
    /\ LET q == TrainLoop([proc[w] EXCEPT !.idx = 0], args,
                          proc[w].num_update_steps_per_epoch)
       IN proc' = [proc EXCEPT ![w] = [q EXCEPT !.pc = "barrier"]]
    /\ UNCHANGED <<args, len_train_loader, len_eval_loader, checkpoint>>

\* dist.barrier() (line 410): all workers leave once all have arrived.
Barrier ==
    /\ \A w \in DOMAIN proc : proc[w].pc = "barrier"
    /\ proc' = [w \in DOMAIN proc |-> [proc[w] EXCEPT !.pc = "eval"]]
    /\ UNCHANGED <<args, len_train_loader, len_eval_loader, checkpoint>>

\* Lines 412-434 and the loop's back edge: the evaluation loop over this
\* worker's shard of the test set, then report_metrics(local_rank, ...).
EvalEpoch(w) ==
    /\ proc[w].pc = "eval"
    /\ \E losses \in [1..len_eval_loader -> LossVals] :
         LET p   == proc[w]
             all == [v \in DOMAIN proc |->
                       IF v = w THEN losses ELSE proc[v].eval_losses]
             erl == ReportedEvalLoss(w, all, len_eval_loader)
         IN proc' = [proc EXCEPT ![w] =
                       [p EXCEPT
                          !.eval_losses = losses,
                          !.eval_running_loss = erl,
                          !.eval_report =
                              IF Prints(p.local_rank)
                              THEN [epoch |-> p.epoch,
                                    steps |-> p.completed_steps, loss |-> erl]
                              ELSE @,
                          !.eval_done = @ + 1,
                          !.epoch = @ + 1,
                          !.pc = IF p.epoch + 1 < args.num_epochs
                                 THEN "train" ELSE "save"]]
    /\ UNCHANGED <<args, len_train_loader, len_eval_loader, checkpoint>>

\* Lines 436-445: torch.save(checkpoint, path) on the saving worker.
SaveCheckpoint(w) ==
    /\ proc[w].pc = "save"
    /\ checkpoint' = IF SavesCheckpoint(proc[w])
                     THEN Append(checkpoint,
                                 [writer |-> w,
                                  global_rank |-> proc[w].global_rank,
                                  epochs_trained |-> proc[w].epoch,
                                  completed_steps |-> proc[w].completed_steps,
                                  epochs_evaluated |-> proc[w].eval_done])
                     ELSE checkpoint
    /\ proc' = [proc EXCEPT ![w] = [@ EXCEPT !.pc = "done"]]
    /\ UNCHANGED <<args, len_train_loader, len_eval_loader>>

Next ==
    \/ \E w \in DOMAIN proc : InitProcessGroup(w)
    \/ \E w \in DOMAIN proc : Setup(w)
    \/ \E w \in DOMAIN proc : TrainEpoch(w)
    \/ Barrier
    \/ \E w \in DOMAIN proc : EvalEpoch(w)
    \/ \E w \in DOMAIN proc : SaveCheckpoint(w)

NextTrain ==
    \/ \E w \in DOMAIN proc : InitProcessGroup(w)
    \/ \E w \in DOMAIN proc : Setup(w)
    \/ \E w \in DOMAIN proc : EpochStart(w)
    \/ \E w \in DOMAIN proc : TrainBatch(w)
    \/ Barrier
    \/ \E w \in DOMAIN proc : EvalEpoch(w)
    \/ \E w \in DOMAIN proc : SaveCheckpoint(w)

Spec == Init /\ [][Next]_vars

SpecTrain == InitTrain /\ [][NextTrain]_vars

----------------------------------------------------------------------------
(* Properties *)

Initialised(p) == p.pc # "spawned"

AllInitialised == \A w \in DOMAIN proc : Initialised(proc[w])

\* The batches <<epoch, idx>> worker record p has run through the loop body.
\* At pc = "train" the next epoch has not started: idx is stale.
Processed(p) ==
    {b \in (0..(args.num_epochs - 1)) \X (0..(len_train_loader - 1)) :
        \/ b[1] < p.epoch
        \/ b[1] = p.epoch /\ p.pc # "train" /\ b[2] < p.idx}

\* The epochs whose training loop worker record p has left.
EpochsTrained(p) ==
    {e \in 0..(args.num_epochs - 1) :
        \/ e < p.epoch
        \/ e = p.epoch /\ p.pc \in {"barrier", "eval"}}

\* The batches after which optimizer.step() was called.
StepPoints(p) == {<<p.applied[i].epoch, p.applied[i].idx>> : i \in 1..Len(p.applied)}

StepsInEpoch(p, e) == Cardinality({i \in 1..Len(p.applied) : p.applied[i].epoch = e})

CeilDiv(n, k) == (n + k - 1) \div k

\* C1: every worker that has computed its ranks has world_size = H*G (the
\* number of workers of the cluster) and global_rank = node_id*G + local_rank
\* with node_id the 0-based position of its host in args.hosts; these are
\* the values given to init_process_group and to both samplers; global
\* ranks are pairwise distinct, lie in 0..world_size-1, cover that range
\* once every worker has one, and only local rank 0 of the first host has
\* global rank 0.
C1_RanksPartitionWorld ==
    LET H == Len(args.hosts)
        G == args.num_gpus
    IN /\ \A w \in DOMAIN proc :
            LET p == proc[w] IN
            Initialised(p) =>
              /\ p.world_size = H * G
              /\ p.world_size = Cardinality(DOMAIN proc)
              /\ p.node_id \in 0..(H - 1)
              /\ args.hosts[p.node_id + 1] = w[1]
              /\ p.global_rank = p.node_id * G + w[2]
              /\ p.global_rank \in 0..(p.world_size - 1)
              /\ p.pg = [world_size |-> H * G, rank |-> p.global_rank]
              /\ (p.pc # "rendezvous" =>
                    /\ p.train_sampler = [num_replicas |-> H * G,
                                          rank |-> p.global_rank]
                    /\ p.test_sampler = [num_replicas |-> H * G,
                                         rank |-> p.global_rank])
              /\ (p.global_rank = 0 <=> w = <<args.hosts[1], 0>>)
       /\ \A v, w \in DOMAIN proc :
            (v # w /\ Initialised(proc[v]) /\ Initialised(proc[w]))
               => proc[v].global_rank # proc[w].global_rank
       /\ AllInitialised =>
            {proc[w].global_rank : w \in DOMAIN proc} = 0..(H * G - 1)

\* A 2 x 2 cluster whose host list is not in name order, every worker past
\* init_process_group and its samplers.
C1_Witness ==
    /\ args.hosts = <<"algo-2", "algo-1">>
    /\ args.num_gpus = 2
    /\ \A w \in DOMAIN proc : proc[w].pc \notin {"spawned", "rendezvous"}
    /\ proc[<<"algo-1", 1>>].global_rank = 3

\* C2: the gradient applied by each optimizer.step() is the accumulation of
\* the gradients of every batch processed since the previous optimizer.step()
\* (or the start of the epoch), so every processed batch's gradient is part
\* of exactly one optimizer update once its epoch's loop has ended.
C2_StepAppliesAccumulatedGradient ==
    \A w \in DOMAIN proc :
        LET p == proc[w] IN
        /\ \A i \in 1..Len(p.applied) : p.applied[i].grad = p.applied[i].window
        /\ \A b \in Processed(p) :
              b[1] \in EpochsTrained(p) =>
                 Cardinality({i \in 1..Len(p.applied) : b \in p.applied[i].grad}) = 1

\* C3: optimizer.step() follows batch idx exactly when (idx+1) is a multiple
\* of k or idx+1 = n; each finished epoch has ceil(n/k) steps, its last
\* batch is followed by a step, and no window of batches between two steps
\* spans two epochs.
C3_StepSchedule ==
    \A w \in DOMAIN proc :
        LET p == proc[w]
            n == len_train_loader
            k == args.gradient_accumulation_steps
        IN /\ StepPoints(p) \subseteq Processed(p)
           /\ Cardinality(StepPoints(p)) = Len(p.applied)
           /\ \A b \in Processed(p) :
                 b \in StepPoints(p) <=> ((b[2] + 1) % k = 0 \/ b[2] + 1 = n)
           /\ \A e \in EpochsTrained(p) :
                 /\ StepsInEpoch(p, e) = CeilDiv(n, k)
                 /\ n > 0 => <<e, n - 1>> \in StepPoints(p)
           /\ \A i \in 1..Len(p.applied) :
                 \A b \in p.applied[i].window : b[1] = p.applied[i].epoch
           /\ p.pc \in {"train", "barrier", "eval", "save", "done"} => p.window = {}

\* A finished run of 2 epochs of 3 batches with k = 2: steps after batches
\* 1 and 2 of each epoch.
C3_Witness ==
    /\ args.num_epochs = 2
    /\ args.gradient_accumulation_steps = 2
    /\ len_train_loader = 3
    /\ \E w \in DOMAIN proc :
          /\ proc[w].pc = "done"
          /\ StepPoints(proc[w]) = {<<0, 1>>, <<0, 2>>, <<1, 1>>, <<1, 2>>}

\* C4: the "Total optimization steps" value announced by global rank 0
\* equals the number of optimizer.step() calls of the finished run.
C4_AnnouncedTotalIsStepCount ==
    \A w \in DOMAIN proc :
        (proc[w].pc = "done" /\ proc[w].global_rank = 0)
           => proc[w].announced = Len(proc[w].applied)

\* C5: checkpoint.pt is written at most once in the cluster, by the worker
\* of global rank 0 only, after it has trained and evaluated all num_epochs
\* epochs.
C5_CheckpointOnceByRankZero ==
    /\ Len(checkpoint) <= 1
    /\ \A i \in 1..Len(checkpoint) :
          LET c == checkpoint[i] IN
          /\ c.global_rank = 0
          /\ c.writer = <<args.hosts[1], 0>>
          /\ proc[c.writer].global_rank = 0
          /\ c.epochs_trained = args.num_epochs
          /\ c.epochs_evaluated = args.num_epochs
          /\ c.completed_steps = args.num_epochs * len_train_loader
    /\ \A w \in DOMAIN proc :
          (proc[w].pc = "done" /\ proc[w].global_rank # 0)
             => \A i \in 1..Len(checkpoint) : checkpoint[i].writer # w

\* Every worker of a 2 x 2 cluster is done after 2 epochs and the file was
\* written.
C5_Witness ==
    /\ Len(args.hosts) = 2
    /\ args.num_gpus = 2
    /\ args.num_epochs = 2
    /\ \A w \in DOMAIN proc : proc[w].pc = "done"
    /\ Len(checkpoint) = 1

\* C6: the Eval loss printed at the end of an epoch depends on the
\* evaluation losses of the other workers too: in a cluster of more than one
\* worker, some other worker's losses, had they been different, would have
\* changed the printed value.
C6_EvalReportDependsOnAllRanks ==
    \A w \in DOMAIN proc :
        LET p   == proc[w]
            all == [v \in DOMAIN proc |-> proc[v].eval_losses]
        IN (p.eval_report # NoReport /\ p.world_size > 1)
              => \E v \in DOMAIN proc \ {w} :
                    \E alt \in [1..len_eval_loader -> LossVals] :
                       ReportedEvalLoss(w, [all EXCEPT ![v] = alt], len_eval_loader)
                          # p.eval_report.loss

====
